---- MODULE Spec2Model ----
(***************************************************************************)
(* Model of src/src/rgb/bech32.rs: the Bech32 tagged union of RGB data,    *)
(* its Display / FromStr implementations, the versioned raw-data codec     *)
(* (plain_encode, deflate_encode, raw_decode) and the ToBech32 /           *)
(* FromBech32 conversion traits.                                           *)
(*                                                                         *)
(* Bytes are naturals in 0..255, 5-bit groups naturals in 0..31.  A text   *)
(* is the record [hrp, data]: the human readable part and the symbols      *)
(* after the '1' separator, each symbol given by its index in the bech32   *)
(* character set (the six checksum symbols included).  Every domain value  *)
(* is represented by the byte vector it carries: a fixed-size hash for the *)
(* identifier kinds, a variable-size byte vector for the document kinds.   *)
(***************************************************************************)
EXTENDS Integers, Sequences, FiniteSets, TLC

\* ------------------------------------------------------------------ bounds

\* Length of the hash carried by an identifier kind in the model.
HashLen == 1
\* Longest byte vector carried by a document kind.
MaxLen == 2
\* Longest payload the environment hands to the decoders.
MaxRaw == 2

\* Byte values the inputs are drawn from: both known versions, an unknown
\* version, and a byte with every bit set.
ByteSamples == {0, 1, 2, 255}

RECURSIVE SeqsUpTo(_, _)
SeqsUpTo(S, n) ==
    IF n = 0 THEN {<<>>}
    ELSE LET shorter == SeqsUpTo(S, n - 1)
         IN  shorter \cup {Append(s, x) : s \in {t \in shorter : Len(t) = n - 1}, x \in S}

SeqsOfLen(S, n) == {s \in SeqsUpTo(S, n) : Len(s) = n}

\* ------------------------------------------------------------------ results

NoErr == [tag |-> "None", byte |-> 0, msg |-> ""]
Ok(v) == [ok |-> TRUE, val |-> v, err |-> NoErr]
Err(nil, e) == [ok |-> FALSE, val |-> nil, err |-> e]

\* The variants of enum Error.
Bech32Error(m) == [tag |-> "Bech32Error", byte |-> 0, msg |-> m]
WrongData(m) == [tag |-> "WrongData", byte |-> 0, msg |-> m]
WrongType == [tag |-> "WrongType", byte |-> 0, msg |-> ""]
UnknownRawDataEncoding(n) == [tag |-> "UnknownRawDataEncoding", byte |-> n, msg |-> ""]
DeflateEncoding == [tag |-> "DeflateEncoding", byte |-> 0, msg |-> ""]
InflateError(m) == [tag |-> "InflateError", byte |-> 0, msg |-> m]
\* core::fmt::Error, the unit error every Error is converted to inside fmt.
FmtError == [tag |-> "fmt::Error", byte |-> 0, msg |-> ""]

\* ------------------------------------------------------- bech32 text layer

Pow2(n) == 2 ^ n

RECURSIVE XorBits(_, _, _)
XorBits(a, b, n) ==
    IF n = 0 THEN 0
    ELSE ((a + b) % 2) + 2 * XorBits(a \div 2, b \div 2, n - 1)

\* Exclusive or of two 5-bit groups, tabulated.
Xor5 == [a \in 0..31 |-> [b \in 0..31 |-> XorBits(a, b, 5)]]

RECURSIVE XorGroups(_, _, _)
XorGroups(a, b, n) ==
    IF n = 0 THEN 0
    ELSE Xor5[a % 32][b % 32] + 32 * XorGroups(a \div 32, b \div 32, n - 1)

\* Exclusive or of two 30-bit checksum words.
Xor30(a, b) == XorGroups(a, b, 6)

\* The generator words of the bech32 checksum.
Generator == <<996825010, 642813549, 513874426, 1027748829, 705979059>>

\* The exclusive or of the generator words selected by the bits of `top`.
RECURSIVE PolymodGen(_, _, _)
PolymodGen(chk, top, i) ==
    IF i > 5 THEN chk
    ELSE LET c == IF (top \div Pow2(i - 1)) % 2 = 1 THEN Xor30(chk, Generator[i]) ELSE chk
         IN  IF c >= 0 THEN PolymodGen(c, top, i + 1) ELSE c

\* The same, tabulated over the five top bits of the checksum word.
GeneratorOf == [top \in 0..31 |-> PolymodGen(0, top, 1)]

\* One step of the checksum: shift the word by five bits, add the value in
\* the freed bits, and fold the generator words of the bits shifted out.
PolymodStep(chk, v) ==
    Xor30((chk % 33554432) * 32 + v, GeneratorOf[chk \div 33554432])

RECURSIVE PolymodFrom(_, _, _)
PolymodFrom(chk, values, i) ==
    IF i > Len(values) THEN chk
    ELSE LET c == PolymodStep(chk, values[i])
         IN  IF c >= 0 THEN PolymodFrom(c, values, i + 1) ELSE c

Polymod(values) == PolymodFrom(1, values, 1)

\* The character codes of the human readable parts the model uses.
HrpBytes(hrp) ==
    CASE hrp = "utxob" -> <<117, 116, 120, 111, 98>>
      [] hrp = "sch" -> <<115, 99, 104>>
      [] hrp = "schema" -> <<115, 99, 104, 101, 109, 97>>
      [] hrp = "rgb" -> <<114, 103, 98>>
      [] hrp = "genesis" -> <<103, 101, 110, 101, 115, 105, 115>>
      [] hrp = "transition" -> <<116, 114, 97, 110, 115, 105, 116, 105, 111, 110>>
      [] hrp = "statex" -> <<115, 116, 97, 116, 101, 120>>
      [] hrp = "anchor" -> <<97, 110, 99, 104, 111, 114>>
      [] hrp = "disclosure" -> <<100, 105, 115, 99, 108, 111, 115, 117, 114, 101>>
      [] hrp = "sc" -> <<115, 99>>
      [] hrp = "schemas" -> <<115, 99, 104, 101, 109, 97, 115>>
      [] hrp = "tb" -> <<116, 98>>
      [] OTHER -> <<>>

HrpExpand(hrp) ==
    LET b == HrpBytes(hrp)
    IN  [i \in 1..Len(b) |-> b[i] \div 32] \o <<0>> \o [i \in 1..Len(b) |-> b[i] % 32]

CreateChecksum(hrp, data) ==
    LET plm == Xor30(Polymod(HrpExpand(hrp) \o data \o <<0, 0, 0, 0, 0, 0>>), 1)
    IN  [i \in 1..6 |-> (plm \div (32 ^ (6 - i))) % 32]

VerifyChecksum(hrp, data) == Polymod(HrpExpand(hrp) \o data) = 1

\* bech32::convert_bits: regroup `from`-bit values into `to`-bit values.
RECURSIVE ConvertBits(_, _, _, _, _, _, _)
ConvertBits(data, i, from, to, acc, bits, out) ==
    IF bits >= to
    THEN LET rest == acc % Pow2(bits - to)
             more == Append(out, acc \div Pow2(bits - to))
         IN  IF rest >= 0 /\ Len(more) > 0
             THEN ConvertBits(data, i, from, to, rest, bits - to, more)
             ELSE [out |-> more, acc |-> rest, bits |-> bits - to]
    ELSE IF i <= Len(data)
    THEN LET wider == acc * Pow2(from) + data[i]
         IN  IF wider >= 0
             THEN ConvertBits(data, i + 1, from, to, wider, bits + from, out)
             ELSE [out |-> out, acc |-> wider, bits |-> bits + from]
    ELSE [out |-> out, acc |-> acc, bits |-> bits]

\* ToBase32 for a byte slice: 8-bit to 5-bit groups, the last one zero padded.
ToBase32(bytes) ==
    LET r == ConvertBits(bytes, 1, 8, 5, 0, 0, <<>>)
    IN  IF r.bits > 0 THEN Append(r.out, r.acc * Pow2(5 - r.bits)) ELSE r.out

\* FromBase32 for Vec<u8>: 5-bit to 8-bit groups, rejecting a padding of five
\* bits or more and a padding that is not zero.
FromBase32(groups) ==
    LET r == ConvertBits(groups, 1, 5, 8, 0, 0, <<>>)
    IN  IF r.bits >= 5 \/ r.acc # 0
        THEN Err(<<>>, Bech32Error("InvalidPadding"))
        ELSE Ok(r.out)

\* bech32::encode: the text of a human readable part and 5-bit data.
Bech32Encode(hrp, data) ==
    IF HrpBytes(hrp) = <<>>
    THEN Err([hrp |-> hrp, data |-> <<>>], Bech32Error("InvalidLength"))
    ELSE Ok([hrp |-> hrp, data |-> data \o CreateChecksum(hrp, data)])

\* bech32::decode: the human readable part and the 5-bit data of a text, the
\* checksum verified and removed.
Bech32Decode(s) ==
    LET nil == [hrp |-> "", data |-> <<>>]
    IN  IF HrpBytes(s.hrp) = <<>> \/ Len(s.data) < 6
        THEN Err(nil, Bech32Error("InvalidLength"))
        ELSE IF \E i \in 1..Len(s.data) : s.data[i] > 31
        THEN Err(nil, Bech32Error("InvalidChar"))
        ELSE IF ~VerifyChecksum(s.hrp, s.data)
        THEN Err(nil, Bech32Error("InvalidChecksum"))
        ELSE Ok([hrp |-> s.hrp, data |-> SubSeq(s.data, 1, Len(s.data) - 6)])

\* ------------------------------------------- strict encoding of the values

\* The faults a rendering can meet: none, a failing domain serialization, a
\* compression stream that cannot be finalized.
Faults == {"none", "serialize", "finish"}

IdKinds == {"BlindedUtxo", "SchemaId", "ContractId"}
DocKinds == {"Schema", "Genesis", "Transition", "Extension", "Anchor", "Disclosure"}
KnownKinds == IdKinds \cup DocKinds

\* The values of a kind: a hash for an identifier, a byte vector for a document.
Values(kind) ==
    IF kind \in IdKinds THEN SeqsOfLen(ByteSamples, HashLen)
    ELSE SeqsUpTo(ByteSamples, MaxLen)

\* StrictEncode::strict_encode of a value of `kind`, appended to the writer:
\* a hash is its bytes, a byte vector its length as u16 LE and its bytes.
StrictEncodeTo(writer, kind, v, fault) ==
    IF fault = "serialize" THEN Err(writer, WrongData("Io"))
    ELSE IF kind \in IdKinds THEN Ok(writer \o v)
    ELSE Ok(writer \o <<Len(v) % 256, Len(v) \div 256>> \o v)

\* StrictDecode::strict_decode of a value of `kind` from the front of the
\* reader; `used` is the number of bytes consumed.
StrictDecodeFrom(reader, kind) ==
    IF kind \in IdKinds
    THEN IF Len(reader) < HashLen
         THEN [res |-> Err(<<>>, WrongData("UnexpectedEof")), used |-> 0]
         ELSE [res |-> Ok(SubSeq(reader, 1, HashLen)), used |-> HashLen]
    ELSE IF Len(reader) < 2
         THEN [res |-> Err(<<>>, WrongData("UnexpectedEof")), used |-> 0]
         ELSE LET n == reader[1] + 256 * reader[2]
              IN  IF Len(reader) < 2 + n
                  THEN [res |-> Err(<<>>, WrongData("UnexpectedEof")), used |-> 0]
                  ELSE [res |-> Ok(SubSeq(reader, 3, 2 + n)), used |-> 2 + n]

\* strict_encoding::strict_encode: the serialization in a fresh vector.
StrictEncode(kind, v, fault) == StrictEncodeTo(<<>>, kind, v, fault)

\* strict_encoding::strict_decode: the value of a buffer that must be
\* consumed entirely.
StrictDecode(data, kind) ==
    LET r == StrictDecodeFrom(data, kind)
    IN  IF ~r.res.ok THEN r.res
        ELSE IF r.used # Len(data) THEN Err(<<>>, WrongData("DataNotEntirelyConsumed"))
        ELSE r.res

\* ------------------------------------------------------ compression stream

\* The length of the run of equal bytes starting at position i.
RECURSIVE RunLen(_, _)
RunLen(bytes, i) ==
    IF i < Len(bytes) /\ bytes[i + 1] = bytes[i] THEN 1 + RunLen(bytes, i + 1) ELSE 1

\* The compressed stream of a buffer: its runs as (count, byte) pairs, closed
\* by an end-of-stream marker.
RECURSIVE DeflateFrom(_, _)
DeflateFrom(bytes, i) ==
    IF i > Len(bytes) THEN <<0>>
    ELSE LET n == RunLen(bytes, i)
         IN  <<n, bytes[i]>> \o DeflateFrom(bytes, i + n)

Deflate(bytes) == DeflateFrom(bytes, 1)

\* inflate::inflate_bytes: the buffer of a compressed stream, an error for a
\* stream that ends before its end-of-stream marker.
RECURSIVE InflateFrom(_, _, _)
InflateFrom(stream, i, out) ==
    IF i > Len(stream) THEN Err(<<>>, InflateError("unexpected EOF"))
    ELSE IF stream[i] = 0 THEN Ok(out)
    ELSE IF i + 1 > Len(stream) THEN Err(<<>>, InflateError("unexpected EOF"))
    ELSE InflateFrom(stream, i + 2, out \o [j \in 1..stream[i] |-> stream[i + 1]])

Inflate(stream) == InflateFrom(stream, 1, <<>>)

\* -------------------------------------------------------------- enum Bech32

HRP_OUTPOINT == "utxob"
HRP_SCHEMA_ID == "sch"
HRP_CONTRACT_ID == "rgb"
HRP_SCHEMA == "schema"
HRP_GENESIS == "genesis"
HRP_TRANSITION == "transition"
HRP_EXTENSION == "statex"
HRP_ANCHOR == "anchor"
HRP_DISCLOSURE == "disclosure"

RAW_DATA_ENCODING_PLAIN == 0
RAW_DATA_ENCODING_DEFLATE == 1

\* A variant of enum Bech32: a known kind holding a value, or Other(hrp, bytes).
Variant(kind, v) == [kind |-> kind, hrp |-> "", val |-> v]
Other(hrp, bytes) == [kind |-> "Other", hrp |-> hrp, val |-> bytes]
NoVariant == [kind |-> "None", hrp |-> "", val |-> <<>>]

NoText == [hrp |-> "", data |-> <<>>]

\* A plain encoder that writes the version byte of the other algorithm.
PlainEncodeWrongVersion(kind, v, fault) ==
    LET r == StrictEncodeTo(<<RAW_DATA_ENCODING_DEFLATE>>, kind, v, fault)
    IN  IF r.ok THEN r ELSE Err(<<>>, r.err)

\* Bech32::plain_encode: the version byte 0, then the strict encoding.
PlainEncode(kind, v, fault) ==
    LET r == StrictEncodeTo(<<RAW_DATA_ENCODING_PLAIN>>, kind, v, fault)
    IN  IF r.ok THEN r ELSE Err(<<>>, r.err)

\* Bech32::deflate_encode: the version byte 1, then the deflated strict
\* encoding; DeflateEncoding when the stream cannot be finished.
DeflateEncode(kind, v, fault) ==
    LET r == StrictEncodeTo(<<>>, kind, v, fault)
    IN  IF ~r.ok THEN Err(<<>>, r.err)
        ELSE IF fault = "finish" THEN Err(<<>>, DeflateEncoding)
        ELSE Ok(<<RAW_DATA_ENCODING_DEFLATE>> \o Deflate(r.val))

\* A decoder that takes every version other than 1 for the plain one.
RawDecodeAccept(data, kind) ==
    IF Len(data) < 1
    THEN [res |-> Err(<<>>, WrongData("UnexpectedEof")), out |-> <<>>, steps |-> {}]
    ELSE LET ver == data[1]
             reader == SubSeq(data, 2, Len(data))
         IN  IF ver = RAW_DATA_ENCODING_DEFLATE
             THEN LET decoded == Inflate(reader)
                  IN  [res |-> IF decoded.ok THEN StrictDecodeFrom(decoded.val, kind).res
                               ELSE decoded,
                       out |-> <<reader>>,
                       steps |-> IF decoded.ok THEN {"inflate", "strict_decode"}
                                 ELSE {"inflate"}]
             ELSE [res |-> StrictDecodeFrom(reader, kind).res, out |-> <<>>,
                   steps |-> {"strict_decode"}]

\* Bech32::raw_decode::<T>: the value, what was printed and the steps taken
\* on the remainder of the payload.
RawDecode(data, kind) ==
    IF Len(data) < 1
    THEN [res |-> Err(<<>>, WrongData("UnexpectedEof")), out |-> <<>>, steps |-> {}]
    ELSE LET ver == data[1]
             reader == SubSeq(data, 2, Len(data))
         IN  IF ver = RAW_DATA_ENCODING_PLAIN
             THEN [res |-> StrictDecodeFrom(reader, kind).res, out |-> <<>>,
                   steps |-> {"strict_decode"}]
             ELSE IF ver = RAW_DATA_ENCODING_DEFLATE
             THEN LET decoded == Inflate(reader)
                  IN  [res |-> IF decoded.ok THEN StrictDecodeFrom(decoded.val, kind).res
                               ELSE decoded,
                       out |-> <<reader>>,
                       steps |-> IF decoded.ok THEN {"inflate", "strict_decode"}
                                 ELSE {"inflate"}]
             ELSE [res |-> Err(<<>>, UnknownRawDataEncoding(ver)), out |-> <<>>,
                   steps |-> {}]

\* The human readable part the match of Display::fmt pairs with a variant.
HrpOf(b) ==
    CASE b.kind = "BlindedUtxo" -> HRP_OUTPOINT
      [] b.kind = "SchemaId" -> HRP_SCHEMA_ID
      [] b.kind = "ContractId" -> HRP_CONTRACT_ID
      [] b.kind = "Schema" -> HRP_SCHEMA
      [] b.kind = "Genesis" -> HRP_GENESIS
      [] b.kind = "Extension" -> HRP_EXTENSION
      [] b.kind = "Transition" -> HRP_TRANSITION
      [] b.kind = "Anchor" -> HRP_ANCHOR
      [] b.kind = "Disclosure" -> HRP_DISCLOSURE
      [] OTHER -> b.hrp

\* An assignment that compresses every document kind, the anchor included.
EncoderOfUniform(b) ==
    CASE b.kind \in {"BlindedUtxo", "SchemaId", "ContractId"} -> "strict_encode"
      [] b.kind \in {"Schema", "Genesis", "Extension", "Transition", "Anchor",
                     "Disclosure"} -> "deflate_encode"
      [] OTHER -> "clone"

\* The encoder the match of Display::fmt applies to a variant.
EncoderOf(b) ==
    CASE b.kind \in {"BlindedUtxo", "SchemaId", "ContractId"} -> "strict_encode"
      [] b.kind \in {"Schema", "Genesis", "Extension", "Transition", "Disclosure"} ->
             "deflate_encode"
      [] b.kind = "Anchor" -> "plain_encode"
      [] OTHER -> "clone"

\* A rendering that leaves the version byte out of every payload.
PayloadOfUnframed(b, fault) ==
    IF b.kind = "Other" THEN Ok(b.val) ELSE StrictEncode(b.kind, b.val, fault)

\* The payload bytes of a variant, as the match of Display::fmt computes them.
PayloadOf(b, fault) ==
    CASE EncoderOf(b) = "strict_encode" -> StrictEncode(b.kind, b.val, fault)
      [] EncoderOf(b) = "deflate_encode" -> DeflateEncode(b.kind, b.val, fault)
      [] EncoderOf(b) = "plain_encode" -> PlainEncode(b.kind, b.val, fault)
      [] OTHER -> Ok(b.val)

\* impl From<Error> for core::fmt::Error: every error becomes the unit error.
FmtErrorFrom(e) == FmtError

\* impl Display for Bech32: the text, and the payload bytes it was made of.
Fmt(b, fault) ==
    LET data == PayloadOf(b, fault)
    IN  IF ~data.ok
        THEN [res |-> Err(NoText, FmtErrorFrom(data.err)), data |-> <<>>]
        ELSE LET t == Bech32Encode(HrpOf(b), ToBase32(data.val))
             IN  [res |-> IF t.ok THEN t ELSE Err(NoText, FmtError), data |-> data.val]

\* A dispatch that compares prefixes: sch, schema and schemas collide.
KindOfHrpByPrefix(hrp) ==
    CASE hrp = HRP_OUTPOINT -> "BlindedUtxo"
      [] hrp \in {HRP_SCHEMA_ID, HRP_SCHEMA, "schemas"} -> "SchemaId"
      [] hrp = HRP_CONTRACT_ID -> "ContractId"
      [] hrp = HRP_GENESIS -> "Genesis"
      [] hrp = HRP_EXTENSION -> "Extension"
      [] hrp = HRP_TRANSITION -> "Transition"
      [] hrp = HRP_ANCHOR -> "Anchor"
      [] hrp = HRP_DISCLOSURE -> "Disclosure"
      [] OTHER -> "Other"

\* The variant the match of FromStr::from_str selects for a human readable part.
KindOfHrp(hrp) ==
    CASE hrp = HRP_OUTPOINT -> "BlindedUtxo"
      [] hrp = HRP_SCHEMA_ID -> "SchemaId"
      [] hrp = HRP_CONTRACT_ID -> "ContractId"
      [] hrp = HRP_SCHEMA -> "Schema"
      [] hrp = HRP_GENESIS -> "Genesis"
      [] hrp = HRP_EXTENSION -> "Extension"
      [] hrp = HRP_TRANSITION -> "Transition"
      [] hrp = HRP_ANCHOR -> "Anchor"
      [] hrp = HRP_DISCLOSURE -> "Disclosure"
      [] OTHER -> "Other"

\* The arms of the identifier kinds: strict_decode of the whole payload.
DecodeId(kind, data) ==
    LET r == StrictDecode(data, kind)
    IN  [res |-> IF r.ok THEN Ok(Variant(kind, r.val)) ELSE Err(NoVariant, r.err),
         out |-> <<>>, steps |-> {"strict_decode"}]

\* The arms of the document kinds: raw_decode of the payload.
DecodeDoc(kind, data) ==
    LET r == RawDecode(data, kind)
    IN  [res |-> IF r.res.ok THEN Ok(Variant(kind, r.res.val))
                 ELSE Err(NoVariant, r.res.err),
         out |-> r.out, steps |-> r.steps]

\* A catch-all arm that takes the first byte for a version byte.
DecodeOtherFramed(hrp, data) ==
    [res |-> Ok(Other(hrp, SubSeq(data, 2, Len(data)))), out |-> <<>>, steps |-> {}]

\* The catch-all arm: the human readable part and the bytes as they are.
DecodeOther(hrp, data) ==
    [res |-> Ok(Other(hrp, data)), out |-> <<>>, steps |-> {}]

\* The match of from_str over the human readable part.
DecodePayload(hrp, data) ==
    LET kind == KindOfHrp(hrp)
    IN  IF kind \in {"BlindedUtxo", "SchemaId", "ContractId"} THEN DecodeId(kind, data)
        ELSE IF kind = "Other" THEN DecodeOther(hrp, data)
        ELSE DecodeDoc(kind, data)

\* impl FromStr for Bech32: the variant or the error, the lines printed to
\* standard output and the steps taken on the payload.
FromStr(s) ==
    LET d == Bech32Decode(s)
    IN  IF ~d.ok THEN [res |-> Err(NoVariant, d.err), out |-> <<>>, steps |-> {}]
        ELSE LET data == FromBase32(d.val.data)
             IN  IF ~data.ok
                 THEN [res |-> Err(NoVariant, data.err), out |-> <<>>, steps |-> {}]
                 ELSE LET p == DecodePayload(d.val.hrp, data.val)
                      IN  [res |-> p.res, out |-> <<data.val>> \o p.out, steps |-> p.steps]

\* A narrowing that hands out the held bytes whatever the variant.
TryFromAny(b, kind) == IF b.kind # "None" THEN Ok(b.val) ELSE Err(<<>>, WrongType)

\* impl TryFrom<Bech32> for the domain type of `kind`.
TryFrom(b, kind) == IF b.kind = kind THEN Ok(b.val) ELSE Err(<<>>, WrongType)

\* A from_bech32_str that reports every failure as a type mismatch.
FromBech32StrWrongType(r, kind) ==
    IF r.ok THEN TryFrom(r.val, kind) ELSE Err(<<>>, WrongType)

\* FromBech32::from_bech32_str: Self::from_bech32(s.parse()?), given what
\* the parse returned.
FromBech32StrOf(r, kind) ==
    IF r.ok THEN TryFrom(r.val, kind) ELSE Err(<<>>, r.err)

\* ------------------------------------------------------------ state machine

VARIABLES
    pc,        \* where the caller is: idle, wrapped, text, failed, panicked,
               \* parsed, narrowed, encoded, decoded
    fault,     \* the fault the environment injects into rendering
    obj,       \* the Bech32 variant built by the caller
    how,       \* what produced the text or the raw payload at hand
    payload,   \* the payload bytes inside fmt, or those of a supplied text
    rendered,  \* what Display::fmt returned
    text,      \* the text handed to the parser
    parsed,    \* what Bech32::from_str returned
    req,       \* the domain type requested from narrowing / raw_decode
    narrowed,  \* what from_bech32 / from_bech32_str returned
    encoded,   \* what plain_encode / deflate_encode returned
    decoded,   \* what raw_decode returned
    again,     \* what Display::fmt returned for the parsed variant
    steps,     \* the steps a decoder took on the payload
    stdout     \* the lines written to standard output

vars == <<pc, fault, obj, how, payload, rendered, text, parsed, req, narrowed,
          encoded, decoded, again, steps, stdout>>

\* Human readable parts of supplied texts: the nine known ones, and unknown
\* ones that are a prefix or an extension of a known one.
UnknownHrps == {"sc", "schemas", "tb"}
KnownHrps == {HRP_OUTPOINT, HRP_SCHEMA_ID, HRP_CONTRACT_ID, HRP_SCHEMA, HRP_GENESIS,
              HRP_TRANSITION, HRP_EXTENSION, HRP_ANCHOR, HRP_DISCLOSURE}
\* Human readable parts a caller may put in Other: unknown, known, and empty.
OtherHrps == UnknownHrps \cup {HRP_CONTRACT_ID, ""}

\* How a supplied text departs from the rendering of its payload.
Modes == {"valid", "extra", "chk", "char", "short"}

\* The text the environment supplies for (hrp, bytes) under a mode.
Supplied(hrp, bytes, mode) ==
    LET groups == ToBase32(bytes)
        good == groups \o CreateChecksum(hrp, groups)
        longer == Append(groups, 0)
    IN  CASE mode = "valid" -> [hrp |-> hrp, data |-> good]
          [] mode = "extra" -> [hrp |-> hrp, data |-> longer \o CreateChecksum(hrp, longer)]
          [] mode = "chk" ->
                 [hrp |-> hrp,
                  data |-> [good EXCEPT ![Len(good)] = (good[Len(good)] + 1) % 32]]
          [] mode = "char" -> [hrp |-> hrp, data |-> [good EXCEPT ![1] = 32]]
          [] OTHER -> [hrp |-> hrp, data |-> SubSeq(good, 1, 5)]

NoResult == Err(<<>>, NoErr)

InitWith(f) ==
    /\ pc = "idle"
    /\ fault = f
    /\ obj = NoVariant
    /\ how = "none"
    /\ payload = <<>>
    /\ rendered = Err(NoText, NoErr)
    /\ text = NoText
    /\ parsed = Err(NoVariant, NoErr)
    /\ req = "None"
    /\ narrowed = NoResult
    /\ encoded = NoResult
    /\ decoded = NoResult
    /\ again = Err(NoText, NoErr)
    /\ steps = {}
    /\ stdout = <<>>

\* Rendering never meets a fault: values serialize, the stream finishes.
Init == InitWith("none")

\* Rendering may meet a fault.
InitFault == \E f \in Faults : InitWith(f)

\* ToBech32::to_bech32: a domain value wrapped into its variant.
ToBech32(kind, v) ==
    /\ pc = "idle"
    /\ obj' = Variant(kind, v)
    /\ pc' = "wrapped"
    /\ UNCHANGED <<again, fault, how, payload, rendered, text, parsed, req, narrowed,
                   encoded, decoded, steps, stdout>>

\* Bech32::Other(hrp, bytes) built by the caller.
NewOther(hrp, bytes) ==
    /\ pc = "idle"
    /\ obj' = Other(hrp, bytes)
    /\ pc' = "wrapped"
    /\ UNCHANGED <<again, fault, how, payload, rendered, text, parsed, req, narrowed,
                   encoded, decoded, steps, stdout>>

\* Display::fmt through write! / format_args!: the caller gets the result.
DisplayFmt ==
    /\ pc = "wrapped"
    /\ LET r == Fmt(obj, fault)
       IN  /\ rendered' = r.res
           /\ payload' = r.data
           /\ text' = r.res.val
           /\ pc' = IF r.res.ok THEN "text" ELSE "failed"
    /\ how' = "fmt"
    /\ UNCHANGED <<again, fault, obj, parsed, req, narrowed, encoded, decoded, steps, stdout>>

\* ToBech32::to_bech32_string: to_string panics when fmt returns an error.
ToBech32String ==
    /\ pc = "wrapped"
    /\ LET r == Fmt(obj, fault)
       IN  /\ rendered' = r.res
           /\ payload' = r.data
           /\ text' = r.res.val
           /\ pc' = IF r.res.ok THEN "text" ELSE "panicked"
    /\ how' = "fmt"
    /\ UNCHANGED <<again, fault, obj, parsed, req, narrowed, encoded, decoded, steps, stdout>>

\* A text arriving from outside.
Supply(hrp, bytes, mode) ==
    /\ pc = "idle"
    /\ text' = Supplied(hrp, bytes, mode)
    /\ payload' = bytes
    /\ how' = mode
    /\ pc' = "text"
    /\ UNCHANGED <<again, fault, obj, rendered, parsed, req, narrowed, encoded, decoded,
                   steps, stdout>>

\* Bech32::from_str(text).
Parse ==
    /\ pc = "text"
    /\ LET r == FromStr(text)
       IN  /\ parsed' = r.res
           /\ steps' = r.steps
           /\ stdout' = stdout \o r.out
    /\ pc' = "parsed"
    /\ UNCHANGED <<again, fault, obj, how, payload, rendered, text, req, narrowed, encoded,
                   decoded>>

\* FromBech32::from_bech32 of a parsed variant.
FromBech32(kind) ==
    /\ pc = "parsed"
    /\ parsed.ok
    /\ req' = kind
    /\ narrowed' = TryFrom(parsed.val, kind)
    /\ pc' = "narrowed"
    /\ UNCHANGED <<again, fault, obj, how, payload, rendered, text, parsed, encoded, decoded,
                   steps, stdout>>

\* FromBech32::from_bech32_str::<T>(text) for a domain type T: parse, then
\* narrow.
FromBech32Str ==
    /\ pc = "text"
    /\ LET r == FromStr(text)
       IN  /\ parsed' = r.res
           /\ steps' = r.steps
           /\ stdout' = stdout \o r.out
           /\ \E kind \in KnownKinds :
                  /\ req' = kind
                  /\ narrowed' = FromBech32StrOf(r.res, kind)
    /\ pc' = "narrowed"
    /\ UNCHANGED <<again, fault, obj, how, payload, rendered, text, encoded, decoded>>

\* Display::fmt of the variant a parse returned.
Rerender ==
    /\ pc = "parsed"
    /\ parsed.ok
    /\ again' = Fmt(parsed.val, fault).res
    /\ pc' = "rerendered"
    /\ UNCHANGED <<fault, obj, how, payload, rendered, text, parsed, req, narrowed,
                   encoded, decoded, steps, stdout>>

\* Bech32::plain_encode(value) called on its own.
CallPlainEncode(kind, v) ==
    /\ pc = "idle"
    /\ obj' = Variant(kind, v)
    /\ req' = kind
    /\ encoded' = PlainEncode(kind, v, fault)
    /\ how' = "plain_encode"
    /\ pc' = "encoded"
    /\ UNCHANGED <<again, fault, payload, rendered, text, parsed, narrowed, decoded, steps,
                   stdout>>

\* Bech32::deflate_encode(value) called on its own.
CallDeflateEncode(kind, v) ==
    /\ pc = "idle"
    /\ obj' = Variant(kind, v)
    /\ req' = kind
    /\ encoded' = DeflateEncode(kind, v, fault)
    /\ how' = "deflate_encode"
    /\ pc' = "encoded"
    /\ UNCHANGED <<again, fault, payload, rendered, text, parsed, narrowed, decoded, steps,
                   stdout>>

\* A raw payload arriving from outside, to be decoded as `kind`.
SupplyRaw(kind, bytes) ==
    /\ pc = "idle"
    /\ req' = kind
    /\ encoded' = Ok(bytes)
    /\ how' = "raw"
    /\ pc' = "encoded"
    /\ UNCHANGED <<again, fault, obj, payload, rendered, text, parsed, narrowed, decoded,
                   steps, stdout>>

\* Bech32::raw_decode::<T>(payload).
CallRawDecode ==
    /\ pc = "encoded"
    /\ encoded.ok
    /\ LET r == RawDecode(encoded.val, req)
       IN  /\ decoded' = r.res
           /\ steps' = r.steps
           /\ stdout' = stdout \o r.out
    /\ pc' = "decoded"
    /\ UNCHANGED <<again, fault, obj, how, payload, rendered, text, parsed, req, narrowed,
                   encoded>>

\* The domains of the operations' inputs are enumerated only where the
\* operation can start.
Idle == pc = "idle"

Next ==
    \/ Idle /\ \E kind \in KnownKinds : \E v \in Values(kind) : ToBech32(kind, v)
    \/ Idle /\ \E hrp \in OtherHrps : \E bytes \in SeqsUpTo(ByteSamples, MaxRaw) :
           NewOther(hrp, bytes)
    \/ DisplayFmt
    \/ ToBech32String
    \/ Idle /\ \E hrp \in KnownHrps \cup UnknownHrps :
           \E bytes \in SeqsUpTo(ByteSamples, MaxRaw) : \E mode \in Modes :
               Supply(hrp, bytes, mode)
    \/ Parse
    \/ \E kind \in KnownKinds : FromBech32(kind)
    \/ FromBech32Str
    \/ Rerender
    \/ Idle /\ \E kind \in DocKinds : \E v \in Values(kind) : CallPlainEncode(kind, v)
    \/ Idle /\ \E kind \in DocKinds : \E v \in Values(kind) : CallDeflateEncode(kind, v)
    \/ Idle /\ \E kind \in DocKinds : \E bytes \in SeqsUpTo(ByteSamples, MaxRaw) :
           SupplyRaw(kind, bytes)
    \/ CallRawDecode

Spec == Init /\ [][Next]_vars

SpecFault == InitFault /\ [][Next]_vars

\* ------------------------------------------------------------------ claims

\* The text at hand is the rendering of the known variant `obj`.
RenderedKnown == how = "fmt" /\ obj.kind \in KnownKinds

\* The text at hand was supplied as the rendering of (text.hrp, payload).
SuppliedValid == how = "valid"

\* The canonical serialization of a value: its bytes for an identifier, its
\* length as u16 LE and its bytes for a document.
Canonical(kind, v) ==
    IF kind \in IdKinds THEN v ELSE <<Len(v) % 256, Len(v) \div 256>> \o v

\* C1: a value of any of the nine known kinds renders to a text (rendering
\* does not fail), parsing that text returns the same variant holding the
\* same value, and narrowing it to the value's own type returns the value.
RoundTripKnown ==
    RenderedKnown =>
        /\ pc \notin {"failed", "panicked"}
        /\ pc \in {"text", "parsed", "narrowed", "rerendered"} => rendered.ok
        /\ pc \in {"parsed", "narrowed", "rerendered"} => parsed = Ok(obj)
        /\ (pc = "narrowed" /\ req = obj.kind) => narrowed = Ok(obj.val)

\* C1 witness: a document value of two bytes, the last one 255, came back
\* from from_bech32_str for its own type.
RoundTripKnownWitness ==
    /\ RenderedKnown
    /\ pc = "narrowed"
    /\ obj.kind = "Transition"
    /\ req = "Transition"
    /\ Len(obj.val) = 2
    /\ obj.val[2] = 255
    /\ narrowed.ok

\* C2: a checksum-valid text carrying an unknown tag and bytes b parses to
\* Other(tag, b), the bytes untouched by any decoding step, and rendering
\* that Other value gives the text back.
RoundTripOther ==
    (SuppliedValid /\ text.hrp \notin KnownHrps) =>
        /\ pc \in {"parsed", "narrowed", "rerendered"} =>
               /\ parsed = Ok(Other(text.hrp, payload))
               /\ steps = {}
        /\ pc = "rerendered" => again = Ok(text)

\* C2 witness: an unknown tag that extends a known one, with a payload whose
\* first byte would be an unknown version, was parsed and rendered again.
RoundTripOtherWitness ==
    /\ SuppliedValid
    /\ text.hrp = "schemas"
    /\ pc = "rerendered"
    /\ Len(payload) = 2
    /\ payload[1] = 2
    /\ again.ok

\* The human readable parts whose payload goes through raw_decode.
FramedHrps == {HRP_SCHEMA, HRP_GENESIS, HRP_TRANSITION, HRP_EXTENSION, HRP_ANCHOR,
               HRP_DISCLOSURE}

\* C3: a payload whose first byte n is neither 0 nor 1 makes raw_decode, and
\* the parsing of a text of a version-framed kind carrying it, fail with
\* UnknownRawDataEncoding(n), the remainder neither inflated nor deserialized.
VersionRejection ==
    /\ (pc = "decoded" /\ Len(encoded.val) >= 1 /\ encoded.val[1] \notin {0, 1}) =>
           /\ decoded = Err(<<>>, UnknownRawDataEncoding(encoded.val[1]))
           /\ steps = {}
    /\ (/\ pc \in {"parsed", "narrowed"}
        /\ SuppliedValid
        /\ text.hrp \in FramedHrps
        /\ Len(payload) >= 1
        /\ payload[1] \notin {0, 1}) =>
           /\ parsed = Err(NoVariant, UnknownRawDataEncoding(payload[1]))
           /\ steps = {}
           /\ pc = "narrowed" => narrowed = Err(<<>>, UnknownRawDataEncoding(payload[1]))

\* C3 witness: a genesis text whose payload starts with the byte 255 and goes
\* on was handed to from_bech32_str.
VersionRejectionWitness ==
    /\ pc = "narrowed"
    /\ SuppliedValid
    /\ text.hrp = HRP_GENESIS
    /\ Len(payload) = 2
    /\ payload[1] = 255
    /\ ~narrowed.ok

\* C4: narrowing depends on the variant alone: it returns the held value
\* when the variant is the one of the requested type and WrongType for every
\* other variant, Other included.
NarrowingPartial ==
    (pc = "narrowed" /\ parsed.ok) =>
        /\ parsed.val.kind = req => narrowed = Ok(parsed.val.val)
        /\ parsed.val.kind # req => narrowed = Err(<<>>, WrongType)
        /\ RenderedKnown => (narrowed.ok <=> req = obj.kind)

\* C4 witness: a schema was rendered, parsed, and requested as a schema
\* identifier.
NarrowingPartialWitness ==
    /\ pc = "narrowed"
    /\ RenderedKnown
    /\ parsed.ok
    /\ parsed.val.kind = "Schema"
    /\ req = "SchemaId"
    /\ narrowed.err = WrongType

\* C5 as stated: the identifier kinds are rendered uncompressed and each of
\* the six other known kinds, the anchor among them, with a payload whose
\* first byte is the version byte 1.
StrategyAsStated ==
    (RenderedKnown /\ rendered.ok) =>
        /\ obj.kind \in IdKinds => payload = Canonical(obj.kind, obj.val)
        /\ obj.kind \in DocKinds => payload[1] = 1

\* C5 amended: the strategy is fixed by the kind: an identifier kind is
\* rendered as its bare canonical serialization, the anchor in plain form
\* (version byte 0, then the canonical serialization), and schema, genesis,
\* transition, state extension and disclosure in compressed form (version
\* byte 1, then the compressed canonical serialization).
StrategyByKind ==
    (RenderedKnown /\ rendered.ok) =>
        /\ obj.kind \in IdKinds => payload = Canonical(obj.kind, obj.val)
        /\ obj.kind = "Anchor" => payload = <<0>> \o Canonical(obj.kind, obj.val)
        /\ obj.kind \in DocKinds \ {"Anchor"} =>
               /\ payload[1] = 1
               /\ Inflate(SubSeq(payload, 2, Len(payload))) =
                      Ok(Canonical(obj.kind, obj.val))

\* C5 witness: an anchor holding a byte was rendered, its payload starting
\* with the version byte 0.
StrategyByKindWitness ==
    /\ RenderedKnown
    /\ pc = "text"
    /\ obj.kind = "Anchor"
    /\ Len(obj.val) >= 1
    /\ payload[1] = 0

\* The tag table of the wire format: one tag per known kind.
TagTable ==
    {<<"BlindedUtxo", "utxob">>, <<"SchemaId", "sch">>, <<"Schema", "schema">>,
     <<"ContractId", "rgb">>, <<"Genesis", "genesis">>, <<"Transition", "transition">>,
     <<"Extension", "statex">>, <<"Anchor", "anchor">>, <<"Disclosure", "disclosure">>}

\* C6: the table pairs each kind with one tag and each tag with one kind; a
\* parse that returns a variant returns the one the table pairs with the
\* whole tag, and Other exactly for a tag outside the table; a rendering of a
\* known variant carries the tag the table pairs with it.
TagMapping ==
    /\ \A p, q \in TagTable : (p[1] = q[1] \/ p[2] = q[2]) => p = q
    /\ {p[1] : p \in TagTable} = KnownKinds
    /\ {p[2] : p \in TagTable} = KnownHrps
    /\ (pc \in {"parsed", "narrowed", "rerendered"} /\ parsed.ok) =>
           /\ parsed.val.kind = "Other" <=> text.hrp \notin KnownHrps
           /\ text.hrp \in KnownHrps => <<parsed.val.kind, text.hrp>> \in TagTable
           /\ parsed.val.kind = "Other" => parsed.val.hrp = text.hrp
    /\ (RenderedKnown /\ rendered.ok) => <<obj.kind, rendered.val.hrp>> \in TagTable

\* C6 witness: a rendered text tagged schema, of which sch is a prefix, was
\* parsed to the schema variant.
TagMappingWitness ==
    /\ pc = "parsed"
    /\ RenderedKnown
    /\ text.hrp = HRP_SCHEMA
    /\ parsed.ok
    /\ parsed.val.kind = "Schema"

\* C7 as stated: parsing and decoding write nothing to standard output.
NoOutput == stdout = <<>>

\* C8 as stated: a rendering that fails hands the caller the typed error of
\* its cause: DeflateEncoding when the compression stream cannot be
\* finalized, the serialization error when the domain serialization fails;
\* it never aborts.
TypedRenderError ==
    (how = "fmt" /\ fault # "none" /\ obj.kind \in KnownKinds) =>
        /\ pc # "panicked"
        /\ (pc = "failed" /\ fault = "finish") => rendered.err = DeflateEncoding
        /\ (pc = "failed" /\ fault = "serialize") => rendered.err.tag = "WrongData"

\* C9: plain_encode gives the byte 0 followed by the canonical serialization,
\* deflate_encode the byte 1 followed by its compressed form, and raw_decode
\* returns the value from either.
SubCodecRoundTrip ==
    /\ (how = "plain_encode" /\ pc \in {"encoded", "decoded"}) =>
           encoded = Ok(<<0>> \o Canonical(obj.kind, obj.val))
    /\ (how = "deflate_encode" /\ pc \in {"encoded", "decoded"}) =>
           /\ encoded.ok
           /\ encoded.val[1] = 1
           /\ encoded.val = <<1>> \o Deflate(Canonical(obj.kind, obj.val))
           /\ Inflate(SubSeq(encoded.val, 2, Len(encoded.val))) =
                  Ok(Canonical(obj.kind, obj.val))
    /\ (how \in {"plain_encode", "deflate_encode"} /\ pc = "decoded") =>
           decoded = Ok(obj.val)

\* C9 witness: a value of two bytes came back from raw_decode of its
\* deflate_encode.
SubCodecRoundTripWitness ==
    /\ how = "deflate_encode"
    /\ pc = "decoded"
    /\ Len(obj.val) = 2
    /\ obj.val[1] = 255
    /\ decoded.ok

\* The checksummed text layer rejects the supplied text: a tampered checksum,
\* a symbol outside the character set, a text too short, or 5-bit data that
\* do not regroup into bytes.
TextLayerRejects ==
    \/ how \in {"chk", "char", "short"}
    \/ how = "extra" /\ ~FromBase32(Append(ToBase32(payload), 0)).ok

PayloadErrors == {"UnknownRawDataEncoding", "InflateError", "WrongData"}

\* C10: from_bech32_str returns the value or exactly one error, in layer
\* order: a Bech32Error when the text layer rejects the text; else the
\* payload error of a known tag whose bytes do not decode; else WrongType
\* when the decoded variant is not the requested type; a value only when
\* all three layers succeed.
LayerOrder ==
    pc = "narrowed" =>
        /\ narrowed.ok <=> narrowed.err = NoErr
        /\ ~narrowed.ok => narrowed.val = <<>>
        /\ narrowed.err.tag \in {"None", "Bech32Error", "WrongType"} \cup PayloadErrors
        /\ how \in Modes => (TextLayerRejects <=> narrowed.err.tag = "Bech32Error")
        /\ how = "fmt" => narrowed.err.tag # "Bech32Error"
        /\ narrowed.err.tag = "Bech32Error" => ~parsed.ok /\ steps = {}
        /\ narrowed.err.tag \in PayloadErrors =>
               /\ text.hrp \in KnownHrps
               /\ parsed = Err(NoVariant, narrowed.err)
        /\ ~parsed.ok => narrowed = Err(<<>>, parsed.err)
        /\ narrowed.err = WrongType <=> (parsed.ok /\ parsed.val.kind # req)
        /\ narrowed.ok <=> (parsed.ok /\ parsed.val.kind = req)
        /\ narrowed.ok => narrowed.val = parsed.val.val

\* C10 witness: a checksum-valid text of a known tag whose compressed payload
\* is cut short was handed to from_bech32_str.
LayerOrderWitness ==
    /\ pc = "narrowed"
    /\ how = "valid"
    /\ text.hrp \in KnownHrps
    /\ narrowed.err.tag = "InflateError"

====
